---- MODULE Spec2Model ----
(***************************************************************************)
(* Model of the Pybricks train control programs:                           *)
(*   src/observer-hub.py  the observer hub (BLEDataReceiver, ObserverHub)   *)
(*   src/main_hub.py      the primary hub (MotorControlSystem)             *)
(*   src/main-hub.py      the primary hub, variant without blinking        *)
(***************************************************************************)
EXTENDS Integers, Sequences, FiniteSets, TLC

VARIABLES
    \* ---- observer hub (src/observer-hub.py) ----
    connection_established, \* BLEDataReceiver.connection_established
    last_received_time,     \* BLEDataReceiver.last_received_time (StopWatch, ms)
    obs_current_speed,      \* ObserverHub.current_speed
    obs_previous_speed,     \* ObserverHub.previous_speed
    current_light_value,    \* ObserverHub.current_light_value
    obs_has_lights,         \* ObserverHub.has_lights
    obs_connected,          \* run(): local `connected` of the latest iteration
    link_age,               \* last_received_time.time() as is_connected read it
    hub_light,              \* colour last given to hub.light.on by the observer
    received,               \* run(): what hub.ble.observe returned in the latest iteration
    received_data,          \* run(): local `received_data` of the latest iteration
    motor_cmds,             \* speeds passed to motor.set_speed in the latest iteration
    light_cmds,             \* values passed to motor.set_light_brightness in the latest iteration
    motor_speed,            \* speed the observer's motors run at (last set_speed; 0 at start)
    obs_ran,                \* TRUE once the observer loop has completed an iteration
    sample_seen,            \* TRUE once hub.ble.observe has returned a value
    valid_seen,             \* TRUE once a value has passed _validate_data
    \* ---- primary hub (src/main_hub.py, src/main-hub.py) ----
    config,                 \* MotorControlSystem.config (immutable)
    has_lights,             \* MotorControlSystem.has_lights (set by _initialize_devices)
    scenario,               \* what the operator and the radio link may do in this run
    pc,                     \* where run() resumes after its latest wait
    remote_connected,       \* RemoteController.connected
    pressed,                \* buttons held down at the latest read of the remote in this iteration
    current_speed,          \* MotorControlSystem.current_speed
    previous_speed,         \* MotorControlSystem.previous_speed
    current_profile,        \* MotorControlSystem.current_profile (1 or 2)
    light_value,            \* MotorControlSystem.light_value
    ramp_dir,               \* _accelerate: its argument `direction`
    ramp_left,              \* _accelerate: iterations of its for loop still to run
    led_blink_state,        \* MotorControlSystem.led_blink_state
    blink_timer_active,     \* blink_timer.active
    blink_timer_target,     \* blink_timer.target_time
    blink_timer_stopwatch,  \* blink_timer.stopwatch (ms; held at 0 while inactive)
    remote_led,             \* colour last given to the remote's light
    pri_hub_light,          \* colour last given to the primary hub's light
    motor_out,              \* speeds passed to motor.set_speed in the latest step
    light_out,              \* values passed to motor.set_light_brightness in the latest step
    broadcast_out,          \* values passed to hub.ble.broadcast in the latest step
    channel,                \* value most recently broadcast (NoData before the first)
    shutdown_requests,      \* calls of hub.system.shutdown
    wait_out,               \* ms passed to wait() in the latest step, call by call
    tick_count,             \* ramp ticks executed (counted when scenario.counting)
    burst_count,            \* calls of _accelerate (counted when scenario.counting)
    switch_count,           \* toggles of current_profile (counted when scenario.counting)
    zero_hold,              \* direction whose button has been down at every read since a
                            \* tick brought the speed to 0, else 0 (noted when scenario.counting)
    link_error_seen,        \* TRUE once the remote has raised OSError (noted when scenario.counting)
    stop_reads,             \* reads of the remote in a row that found STOP pressed
                            \* (counted when scenario.stop_watch)
    \* ---- the broadcast channel between the hubs (noted when scenario.mirror) ----
    heard,                  \* the broadcast the observer's radio received last (NoData: none yet)
    heard_lag,              \* broadcasts the primary has made since that one (up to MaxLag)
    applied_lag,            \* broadcasts made since the one the observer applied last
                            \* (up to MaxLag; MaxLag while none was applied)
    sent_speeds             \* the speeds the primary has broadcast so far

obsVars == <<connection_established, last_received_time, obs_current_speed,
             obs_previous_speed, current_light_value, obs_has_lights,
             obs_connected, link_age, hub_light, received, received_data, motor_cmds,
             light_cmds, motor_speed, obs_ran, sample_seen, valid_seen>>

priVars == <<config, has_lights, scenario, pc, remote_connected, pressed,
             current_speed, previous_speed, current_profile, light_value,
             ramp_dir, ramp_left, led_blink_state, blink_timer_active,
             blink_timer_target, blink_timer_stopwatch, remote_led,
             pri_hub_light, motor_out, light_out, broadcast_out, channel,
             shutdown_requests, wait_out, tick_count, burst_count,
             switch_count, zero_hold, link_error_seen, stop_reads>>

linkVars == <<heard, heard_lag, applied_lag, sent_speeds>>

vars == <<obsVars, priVars, linkVars>>

(***************************************************************************)
(* Python helpers                                                          *)
(***************************************************************************)
Max(a, b) == IF a >= b THEN a ELSE b
Min(a, b) == IF a <= b THEN a ELSE b
Abs(a) == IF a < 0 THEN -a ELSE a

\* A Python scalar: t is its type, v its payload.  A float carries its value
\* in tenths (v = 607 is 60.7); "inf" carries its sign, "nan" and "str" carry 0.
PyI(n) == [t |-> "int", v |-> n]
PyF(tenths) == [t |-> "float", v |-> tenths]
PyInf(sign) == [t |-> "inf", v |-> sign]
PyNan == [t |-> "nan", v |-> 0]
PyStr == [t |-> "str", v |-> 0]

\* isinstance(x, (int, float)): inf and nan are floats.
IsNumber(x) == x.t \in {"int", "float", "inf", "nan"}

\* int(x) raises OverflowError for an infinity and ValueError for a nan.
IntRaises(x) == x.t \in {"inf", "nan"}

\* int(x) of a finite number: a float is truncated toward zero.
PyInt(x) ==
    IF x.t = "int" THEN x.v
    ELSE IF x.v >= 0 THEN x.v \div 10 ELSE -((-x.v) \div 10)

\* A float of the hub (MicroPython single precision): m * 2^(-e) with a
\* mantissa m of FloatBits bits.  Results are rounded to nearest, ties to even.
FloatBits == 24

\* the number of bits of an int n >= 1 (up to FloatBits + 7 of them)
BitLength(n) == CHOOSE len \in 1 .. (FloatBits + 7) : n \div 2 ^ (len - 1) = 1

\* a / b for ints 0 < a, 0 < b < 2^19, a / b < 2^8: long division in two
\* stretches of fraction bits, so that no intermediate value leaves 32 bits
FloatDiv(a, b) ==
    LET lead == IF a >= b THEN 0
                ELSE CHOOSE n \in 1 .. 19 : a * 2 ^ n >= b /\ a * 2 ^ (n - 1) < b
        num == a * 2 ^ lead
        whole == num \div b
        frac == FloatBits - BitLength(whole)
        half == FloatBits \div 2
        q1 == ((num % b) * 2 ^ half) \div b
        r1 == ((num % b) * 2 ^ half) % b
        q2 == (r1 * 2 ^ (frac - half)) \div b
        r2 == (r1 * 2 ^ (frac - half)) % b
        q == whole * 2 ^ frac + q1 * 2 ^ (frac - half) + q2
        up == 2 * r2 > b \/ (2 * r2 = b /\ q % 2 = 1)
        m == IF up THEN q + 1 ELSE q
    IN  IF m = 2 ^ FloatBits THEN [m |-> m \div 2, e |-> frac + lead - 1]
        ELSE [m |-> m, e |-> frac + lead]

\* the bits a product has beyond FloatBits
ExtraBits(prod) == Max(0, BitLength(prod) - FloatBits)

\* x * n for a float x and a small int n > 0
FloatMul(x, n) ==
    LET prod == x.m * n
        extra == ExtraBits(prod)
        m == prod \div (2 ^ extra)
        r == prod % (2 ^ extra)
        up == extra > 0 /\ (2 * r > 2 ^ extra \/ (2 * r = 2 ^ extra /\ m % 2 = 1))
        m2 == IF up THEN m + 1 ELSE m
    IN  IF m2 = 2 ^ FloatBits THEN [m |-> m2 \div 2, e |-> x.e - extra - 1]
        ELSE [m |-> m2, e |-> x.e - extra]

\* x <= t for a float x and an int t >= 1
FloatLeq(x, t) ==
    IF x.e <= 0 THEN FALSE
    ELSE IF x.e > 30 THEN TRUE
    ELSE LET whole == x.m \div (2 ^ x.e)
         IN  whole < t \/ (whole = t /\ x.m % (2 ^ x.e) = 0)

\* What hub.ble.observe returns: None, or the value that was broadcast.
NoData == [shape |-> "none", items |-> <<>>]
PyTuple(items) == [shape |-> "tuple", items |-> items]
PyList(items) == [shape |-> "list", items |-> items]
PyScalar(x) == [shape |-> "scalar", items |-> <<x>>]

\* The result None of receive_data / _validate_data; a result is else <<speed, light>>.
None == <<>>

\* MotorControlSystem._broadcast_data: the value the primary hub broadcasts
BroadcastData(speed, light) == PyTuple(<<PyI(speed), PyI(light)>>)

(***************************************************************************)
(* Primary hub: configuration (MotorProfile, SpeedLEDConfig, Configuration)*)
(***************************************************************************)
MotorProfile(min_speed, max_speed, acceleration_step, acceleration_delay) ==
    [min_speed |-> min_speed, max_speed |-> max_speed,
     acceleration_step |-> acceleration_step,
     acceleration_delay |-> acceleration_delay]

\* Configuration.profile_a and profile_b as the source sets them
DefaultProfileA == MotorProfile(20, 100, 10, 100)
DefaultProfileB == MotorProfile(10, 500, 5, 200)

\* Two small profiles, to run the whole loop with.  Like the defaults, A has
\* the narrower range and the higher minimum; A has a deadband (min_speed > 1)
\* as both defaults have, B has min_speed 1, the only kind of profile under
\* which a ramp tick can bring the speed to exactly 0.
SmallProfileA == MotorProfile(3, 6, 2, 100)
SmallProfileB == MotorProfile(1, 8, 3, 200)

\* Configuration.led_speed_profile_a and led_speed_profile_b
LedSpeedProfileA ==
    [stopped |-> "WHITE*0.2", slow |-> "YELLOW*0.5", medium |-> "ORANGE*0.5",
     fast |-> "RED*0.7", profile_indicator |-> "GREEN*0.6",
     slow_threshold |-> 30, medium_threshold |-> 60, blink_interval_ms |-> 500]
LedSpeedProfileB ==
    [stopped |-> "WHITE*0.2", slow |-> "BLUE*0.5", medium |-> "MAGENTA*0.5",
     fast |-> "VIOLET*0.7", profile_indicator |-> "RED*0.6",
     slow_threshold |-> 20, medium_threshold |-> 50, blink_interval_ms |-> 500]

\* SpeedLEDConfig() with the defaults of its constructor: no profile_indicator
SpeedLEDConfigDefault ==
    [stopped |-> "WHITE*0.2", slow |-> "YELLOW*0.5", medium |-> "ORANGE*0.5",
     fast |-> "RED*0.7", profile_indicator |-> "None",
     slow_threshold |-> 30, medium_threshold |-> 60, blink_interval_ms |-> 500]

\* A Configuration: the fields the control loop reads.
Configuration(profile_a, profile_b, auto, watchdog, broadcast, blink) ==
    [profile_a |-> profile_a, profile_b |-> profile_b,
     auto_acceleration |-> auto,
     watchdog_enabled |-> watchdog,
     should_broadcast |-> broadcast,
     led_speed_profile_a |-> LedSpeedProfileA,
     led_speed_profile_b |-> LedSpeedProfileB,
     use_speed_based_leds |-> TRUE,
     blink_profile_when_stopped |-> blink,
     initial_light_value |-> 0]

Buttons == {"UP", "DOWN", "STOP", "SWITCH", "B_UP", "B_DOWN", "B_STOP"}

\* the waits of the control loop, in ms
LoopWait == 10
ReleaseWait == 100
StopWait == 100
LightStepWait == 100
LightToggleWait == 300
ReconnectTimeout == 1000
LightStep == 10
LightFull == 100

\* ms after which the model stops counting the blink stopwatch
MaxBlinkClock == 510
\* broadcasts the model counts a received sample to lag behind
MaxLag == 2
\* ramp ticks and bursts the model counts up to
MaxTicks == 115
MaxBursts == 12
\* profile switches the model counts up to
MaxSwitches == 3
\* reads in a row with STOP pressed the model counts up to
MaxStopReads == 6

\* the button sets the operator can hold down at a read, and the link states
Pressable == {p \in SUBSET scenario.live : scenario.held \subseteq p}
LinkStates == IF scenario.faults THEN BOOLEAN ELSE {TRUE}

(***************************************************************************)
(* Primary hub: the state as one record, and the methods as functions on it*)
(***************************************************************************)
Cur ==
    [pc |-> pc, remote_connected |-> remote_connected, pressed |-> pressed,
     current_speed |-> current_speed, previous_speed |-> previous_speed,
     current_profile |-> current_profile, light_value |-> light_value,
     ramp_dir |-> ramp_dir, ramp_left |-> ramp_left,
     led_blink_state |-> led_blink_state,
     blink_timer_active |-> blink_timer_active,
     blink_timer_target |-> blink_timer_target,
     blink_timer_stopwatch |-> blink_timer_stopwatch,
     remote_led |-> remote_led, pri_hub_light |-> pri_hub_light,
     motor_out |-> <<>>, light_out |-> <<>>, broadcast_out |-> <<>>,
     channel |-> channel, shutdown_requests |-> shutdown_requests,
     wait_out |-> <<>>,
     tick_count |-> tick_count, burst_count |-> burst_count,
     switch_count |-> switch_count, zero_hold |-> zero_hold,
     link_error_seen |-> link_error_seen, stop_reads |-> stop_reads]

\* hub.ble.broadcast as the channel sees it: the broadcasts of a step of the
\* primary age what the observer's radio has received and what it has applied
LinkNotes(sent) ==
    /\ heard' = heard
    /\ heard_lag' =
          IF scenario.mirror THEN Min(heard_lag + Len(sent), MaxLag) ELSE heard_lag
    /\ applied_lag' =
          IF scenario.mirror THEN Min(applied_lag + Len(sent), MaxLag) ELSE applied_lag
    /\ sent_speeds' =
          IF scenario.mirror
          THEN sent_speeds \cup {sent[i].items[1].v : i \in 1 .. Len(sent)}
          ELSE sent_speeds

Becomes(s) ==
    \E next \in {s} :
       /\ LinkNotes(next.broadcast_out)
       /\ pc' = next.pc
       /\ remote_connected' = next.remote_connected
       /\ pressed' = next.pressed
       /\ current_speed' = next.current_speed
       /\ previous_speed' = next.previous_speed
       /\ current_profile' = next.current_profile
       /\ light_value' = next.light_value
       /\ ramp_dir' = next.ramp_dir
       /\ ramp_left' = next.ramp_left
       /\ led_blink_state' = next.led_blink_state
       /\ blink_timer_active' = next.blink_timer_active
       /\ blink_timer_target' = next.blink_timer_target
       /\ blink_timer_stopwatch' = next.blink_timer_stopwatch
       /\ remote_led' = next.remote_led
       /\ pri_hub_light' = next.pri_hub_light
       /\ motor_out' = next.motor_out
       /\ light_out' = next.light_out
       /\ broadcast_out' = next.broadcast_out
       /\ channel' = next.channel
       /\ shutdown_requests' = next.shutdown_requests
       /\ wait_out' = next.wait_out
       /\ tick_count' = next.tick_count
       /\ burst_count' = next.burst_count
       /\ switch_count' = next.switch_count
       /\ zero_hold' = next.zero_hold
       /\ link_error_seen' = next.link_error_seen
       /\ stop_reads' = next.stop_reads
       /\ UNCHANGED <<config, has_lights, scenario>>

\* wait(ms): the only thing of the model that time moves is the blink stopwatch
Wait(s, ms) ==
    [s EXCEPT !.blink_timer_stopwatch =
                  IF s.blink_timer_active THEN Min(@ + ms, MaxBlinkClock) ELSE @,
              !.wait_out = Append(@, ms)]

\* _get_current_profile
GetCurrentProfile(s) ==
    IF s.current_profile = 1 THEN config.profile_a ELSE config.profile_b

\* _get_current_speed_led_config
GetCurrentSpeedLedConfig(s) ==
    IF s.current_profile = 1 THEN config.led_speed_profile_a
    ELSE config.led_speed_profile_b

\* Timer.check that fires as soon as the target time is reached
BlinkTimerElapsedAtTarget(s) ==
    s.blink_timer_active /\ s.blink_timer_stopwatch >= s.blink_timer_target

\* Timer.check on the blink timer: whether it has elapsed
BlinkTimerElapsed(s) ==
    s.blink_timer_active /\ s.blink_timer_stopwatch > s.blink_timer_target

\* _get_stopped_led_color with a Timer.check that leaves an elapsed timer running
GetStoppedLedColorNoRestart(s) ==
    LET s1 == IF BlinkTimerElapsed(s)
              THEN [s EXCEPT !.led_blink_state = ~s.led_blink_state]
              ELSE s
    IN  IF ~s1.blink_timer_active
        THEN [s1 EXCEPT !.blink_timer_active = TRUE,
                        !.blink_timer_stopwatch = 0,
                        !.blink_timer_target =
                            GetCurrentSpeedLedConfig(s).blink_interval_ms]
        ELSE s1

\* _get_stopped_led_color: the state after the call; the colour is StoppedColor
GetStoppedLedColor(s) ==
    LET elapsed == BlinkTimerElapsed(s)
        s1 == IF elapsed
              THEN [s EXCEPT !.blink_timer_active = FALSE,
                             !.blink_timer_target = 0,
                             !.blink_timer_stopwatch = 0,
                             !.led_blink_state = ~s.led_blink_state]
              ELSE s
    IN  IF ~s1.blink_timer_active
        THEN [s1 EXCEPT !.blink_timer_active = TRUE,
                        !.blink_timer_stopwatch = 0,
                        !.blink_timer_target =
                            GetCurrentSpeedLedConfig(s).blink_interval_ms]
        ELSE s1

\* _get_stopped_led_color: the colour it returns while led_blink_state is True
ProfileColor(s) ==
    LET speed_config == GetCurrentSpeedLedConfig(s)
    IN  IF speed_config.profile_indicator = "None"
        THEN speed_config.fast ELSE speed_config.profile_indicator

\* _get_stopped_led_color: the colour returned, s being the state after the call
StoppedColor(s) ==
    LET speed_config == GetCurrentSpeedLedConfig(s)
    IN  IF s.led_blink_state
        THEN IF speed_config.profile_indicator = "None"
             THEN speed_config.fast ELSE speed_config.profile_indicator
        ELSE speed_config.stopped

\* _get_led_color_for_speed for a speed other than 0, with the percentage
\* computed in exact arithmetic instead of the hub's floats
MovingColorExact(s, speed) ==
    LET speed_config == GetCurrentSpeedLedConfig(s)
        profile == GetCurrentProfile(s)
    IN  IF Abs(speed) * 100 <= speed_config.slow_threshold * profile.max_speed
        THEN speed_config.slow
        ELSE IF Abs(speed) * 100 <= speed_config.medium_threshold * profile.max_speed
        THEN speed_config.medium
        ELSE speed_config.fast

\* The percentage of _get_led_color_for_speed: (abs_speed / max_speed) * 100
\* in the floats of the hub, IEEE single precision with round to nearest even
SpeedPercentage(abs_speed, max_speed) ==
    CHOOSE pct \in {FloatMul(quotient, 100) :
                       quotient \in {FloatDiv(a, b) : a \in {abs_speed},
                                                      b \in {max_speed}}} : TRUE

\* _get_led_color_for_speed for a speed other than 0 (speed-based colouring on)
MovingColor(s, speed) ==
    LET speed_config == GetCurrentSpeedLedConfig(s)
        profile == GetCurrentProfile(s)
    IN  CHOOSE color \in
            {IF FloatLeq(speed_percentage, speed_config.slow_threshold)
             THEN speed_config.slow
             ELSE IF FloatLeq(speed_percentage, speed_config.medium_threshold)
             THEN speed_config.medium
             ELSE speed_config.fast :
               speed_percentage \in
                   {SpeedPercentage(Abs(speed), profile.max_speed)}} : TRUE

\* _get_led_color_for_speed followed by remote_controller.set_led, which sets
\* the colour only while the remote is connected
ShowLedColorForSpeed(s, speed) ==
    IF ~config.use_speed_based_leds
    THEN IF s.remote_connected
         THEN [s EXCEPT !.remote_led =
                  IF s.current_profile = 1 THEN "GREEN*0.3" ELSE "RED*0.5"]
         ELSE s
    ELSE IF Abs(speed) = 0
    THEN IF config.blink_profile_when_stopped
         THEN LET s1 == GetStoppedLedColor(s)
              IN  IF s1.remote_connected
                  THEN [s1 EXCEPT !.remote_led = StoppedColor(s1)] ELSE s1
         ELSE IF s.remote_connected
              THEN [s EXCEPT !.remote_led = GetCurrentSpeedLedConfig(s).stopped]
              ELSE s
    ELSE IF s.remote_connected
         THEN [s EXCEPT !.remote_led = MovingColor(s, speed)]
         ELSE s

\* _broadcast_data
Broadcast(s) ==
    LET data == BroadcastData(s.current_speed, s.light_value)
    IN  [s EXCEPT !.broadcast_out = Append(@, data), !.channel = data]

\* _update_motor_speeds that does not record the speed it has pushed
UpdateMotorSpeedsNoRecord(s) ==
    IF s.current_speed # s.previous_speed
    THEN LET s1 == [s EXCEPT !.motor_out = Append(@, s.current_speed)]
             s2 == IF s1.remote_connected
                   THEN ShowLedColorForSpeed(s1, s1.current_speed) ELSE s1
         IN  IF config.should_broadcast THEN Broadcast(s2) ELSE s2
    ELSE s

\* _update_motor_speeds without its broadcast
UpdateMotorSpeedsSilent(s) ==
    IF s.current_speed # s.previous_speed
    THEN LET s1 == [s EXCEPT !.motor_out = Append(@, s.current_speed),
                             !.previous_speed = s.current_speed]
         IN  IF s1.remote_connected
             THEN ShowLedColorForSpeed(s1, s1.current_speed) ELSE s1
    ELSE s

\* _update_motor_speeds without its test for a change
UpdateMotorSpeedsAlways(s) ==
    LET s1 == [s EXCEPT !.motor_out = Append(@, s.current_speed),
                        !.previous_speed = s.current_speed]
        s2 == IF s1.remote_connected
              THEN ShowLedColorForSpeed(s1, s1.current_speed) ELSE s1
    IN  IF config.should_broadcast THEN Broadcast(s2) ELSE s2

\* _update_motor_speeds
UpdateMotorSpeeds(s) ==
    IF s.current_speed # s.previous_speed
    THEN LET s1 == [s EXCEPT !.motor_out = Append(@, s.current_speed),
                             !.previous_speed = s.current_speed]
             s2 == IF s1.remote_connected
                   THEN ShowLedColorForSpeed(s1, s1.current_speed) ELSE s1
         IN  IF config.should_broadcast THEN Broadcast(s2) ELSE s2
    ELSE s

\* the button _accelerate waits on for a direction
DirectionButton(direction) == IF direction > 0 THEN "UP" ELSE "DOWN"

\* is_button_pressed as the handlers of one step see it: a read of a remote
\* whose link is down raises OSError, which marks the remote disconnected and
\* reads as "not pressed"; a remote marked disconnected is not read at all.
AfterRead(s, p, ok) ==
    [s EXCEPT !.pressed = p, !.remote_connected = s.remote_connected /\ ok,
              !.link_error_seen = @ \/ (scenario.counting /\ s.remote_connected /\ ~ok),
              !.zero_hold = IF @ # 0 /\ DirectionButton(@) \notin p THEN 0 ELSE @,
              !.stop_reads = IF ~scenario.stop_watch THEN @
                             ELSE IF s.remote_connected /\ ok /\ "STOP" \in p
                             THEN Min(@ + 1, MaxStopReads)
                             ELSE 0]
IsButtonPressed(s, action) == s.remote_connected /\ action \in s.pressed

\* _accelerate's tick without the minimum speed threshold
TickSpeedNoDeadband(speed, profile, direction) ==
    LET stepped == speed + direction
    IN  IF stepped > profile.max_speed THEN profile.max_speed
        ELSE IF stepped < -profile.max_speed THEN -profile.max_speed
        ELSE stepped

\* _accelerate's tick without the speed limits
TickSpeedNoLimit(speed, profile, direction) ==
    LET stepped == speed + direction
    IN  IF 0 < Abs(stepped) /\ Abs(stepped) < profile.min_speed
        THEN profile.min_speed * (IF direction > 0 THEN 1 ELSE -1)
        ELSE IF Abs(stepped) < profile.min_speed THEN 0
        ELSE stepped

\* _accelerate: the speed after one iteration of its for loop
TickSpeed(speed, profile, direction) ==
    LET stepped == speed + direction
        limited == IF stepped > profile.max_speed THEN profile.max_speed
                   ELSE IF stepped < -profile.max_speed THEN -profile.max_speed
                   ELSE stepped
    IN  IF 0 < Abs(limited) /\ Abs(limited) < profile.min_speed
        THEN profile.min_speed * (IF direction > 0 THEN 1 ELSE -1)
        ELSE IF Abs(limited) < profile.min_speed THEN 0
        ELSE limited

\* run(): where an iteration goes once speed control is done
AfterSpeedControl(s) == [s EXCEPT !.pc = "blink"]

\* _accelerate waiting for release after every burst, auto-acceleration or not
AfterRampLoopManual(s) == [s EXCEPT !.pc = "hold_wait"]

\* _accelerate: after its for loop
AfterRampLoop(s) ==
    IF ~config.auto_acceleration THEN [s EXCEPT !.pc = "hold_wait"]
    ELSE IF s.current_speed = 0 THEN [s EXCEPT !.pc = "zero_wait"]
    ELSE AfterSpeedControl(s)

\* _accelerate: entering it
StartAccelerate(s, direction) ==
    LET s1 == [s EXCEPT !.ramp_dir = direction,
                        !.ramp_left = GetCurrentProfile(s).acceleration_step,
                        !.burst_count =
                            IF scenario.counting THEN Min(@ + 1, MaxBursts) ELSE @]
    IN  IF s1.ramp_left > 0 THEN [s1 EXCEPT !.pc = "tick"] ELSE AfterRampLoop(s1)

(***************************************************************************)
(* Primary hub: the steps of run(), one per stretch of code between waits  *)
(***************************************************************************)
\* run() without the return that follows its shutdown request
ConnectNoReturn ==
    /\ pc = "connect"
    /\ \E ok \in LinkStates :
          Becomes(IF ok
                  THEN [Cur EXCEPT !.remote_connected = TRUE, !.pc = "remote",
                                   !.pri_hub_light = "RED"]
                  ELSE [Cur EXCEPT !.remote_connected = FALSE, !.pc = "remote",
                                   !.pri_hub_light = "RED",
                                   !.link_error_seen = scenario.counting,
                                   !.shutdown_requests = @ + 1])
    /\ UNCHANGED obsVars

\* run(): the initial connection
Connect ==
    /\ pc = "connect"
    /\ \E ok \in LinkStates :
          Becomes(IF ok
                  THEN [Cur EXCEPT !.remote_connected = TRUE, !.pc = "remote",
                                   !.pri_hub_light = "RED"]
                  ELSE [Cur EXCEPT !.remote_connected = FALSE, !.pc = "shutdown",
                                   !.pri_hub_light = "RED",
                                   !.link_error_seen = scenario.counting,
                                   !.shutdown_requests = @ + 1])
    /\ UNCHANGED obsVars

\* _handle_remote_connection without its watchdog branch
HandleRemoteConnectionNoWatchdog(s0, ok, again) ==
    LET s == [s0 EXCEPT !.pressed = {}]
    IN
    IF ok
    THEN [s EXCEPT !.pri_hub_light = "led_connected", !.remote_connected = TRUE,
                   !.pc = "switch"]
    ELSE LET s1 == [s EXCEPT !.pri_hub_light = "led_not_connected",
                             !.remote_connected = FALSE,
                             !.link_error_seen = @ \/ scenario.counting,
                             !.stop_reads = 0]
         IN  IF again
             THEN [s1 EXCEPT !.remote_connected = TRUE, !.pc = "switch"]
             ELSE Wait(Wait([s1 EXCEPT !.pc = "remote"], ReconnectTimeout), LoopWait)

\* _handle_remote_connection that stops the motors whatever watchdog_enabled is
HandleRemoteConnectionAlwaysStop(s0, ok, again) ==
    LET s == [s0 EXCEPT !.pressed = {}]
    IN
    IF ok
    THEN [s EXCEPT !.pri_hub_light = "led_connected", !.remote_connected = TRUE,
                   !.pc = "switch"]
    ELSE LET s1 == [s EXCEPT !.pri_hub_light = "led_not_connected",
                             !.remote_connected = FALSE,
                             !.link_error_seen = @ \/ scenario.counting,
                             !.stop_reads = 0]
             s2 == UpdateMotorSpeeds([s1 EXCEPT !.current_speed = 0])
         IN  IF again
             THEN [s2 EXCEPT !.remote_connected = TRUE, !.pc = "switch"]
             ELSE Wait(Wait([s2 EXCEPT !.pc = "remote"], ReconnectTimeout), LoopWait)

\* _handle_remote_connection, and the test of run() that follows it
HandleRemoteConnectionStep(s0, ok, again) ==
    LET s == [s0 EXCEPT !.pressed = {}]
    IN
    IF ok
    THEN [s EXCEPT !.pri_hub_light = "led_connected", !.remote_connected = TRUE,
                   !.pc = "switch"]
    ELSE LET s1 == [s EXCEPT !.pri_hub_light = "led_not_connected",
                             !.remote_connected = FALSE,
                             !.link_error_seen = @ \/ scenario.counting,
                             !.stop_reads = 0]
             s2 == IF config.watchdog_enabled
                   THEN UpdateMotorSpeeds([s1 EXCEPT !.current_speed = 0])
                   ELSE s1
         IN  IF again
             THEN [s2 EXCEPT !.remote_connected = TRUE, !.pc = "switch"]
             ELSE Wait(Wait([s2 EXCEPT !.pc = "remote"], ReconnectTimeout), LoopWait)

HandleRemoteConnection ==
    /\ pc = "remote"
    /\ \E ok \in LinkStates, again \in LinkStates :
          Becomes(HandleRemoteConnectionStep(Cur, ok, again))
    /\ UNCHANGED obsVars

\* _handle_profile_switch without its wait for release
HandleProfileSwitchNoBlock(s0, p, ok) ==
    LET s == AfterRead(s0, p, ok)
    IN  IF IsButtonPressed(s, "SWITCH")
        THEN LET s1 == [s EXCEPT !.current_profile = IF @ = 1 THEN 2 ELSE 1,
                                 !.switch_count =
                                     IF scenario.counting
                                     THEN Min(@ + 1, MaxSwitches) ELSE @,
                                 !.blink_timer_active = FALSE,
                                 !.blink_timer_target = 0,
                                 !.blink_timer_stopwatch = 0,
                                 !.led_blink_state = TRUE]
                 s2 == IF s1.remote_connected
                       THEN ShowLedColorForSpeed(s1, s1.current_speed) ELSE s1
             IN  [s2 EXCEPT !.pc = "speed"]
        ELSE [s EXCEPT !.pc = "speed"]

\* _handle_profile_switch that leaves the blink timer and led_blink_state alone
HandleProfileSwitchNoReset(s0, p, ok) ==
    LET s == AfterRead(s0, p, ok)
    IN  IF IsButtonPressed(s, "SWITCH")
        THEN LET s1 == [s EXCEPT !.current_profile = IF @ = 1 THEN 2 ELSE 1,
                                 !.switch_count =
                                     IF scenario.counting
                                     THEN Min(@ + 1, MaxSwitches) ELSE @]
                 s2 == IF s1.remote_connected
                       THEN ShowLedColorForSpeed(s1, s1.current_speed) ELSE s1
             IN  Wait([s2 EXCEPT !.pc = "switch_wait"], ReleaseWait)
        ELSE [s EXCEPT !.pc = "speed"]

\* _handle_profile_switch that stops the motors when it changes the profile
HandleProfileSwitchStopping(s0, p, ok) ==
    LET s == AfterRead(s0, p, ok)
    IN  IF IsButtonPressed(s, "SWITCH")
        THEN LET s1 == [s EXCEPT !.current_profile = IF @ = 1 THEN 2 ELSE 1,
                                 !.switch_count =
                                     IF scenario.counting
                                     THEN Min(@ + 1, MaxSwitches) ELSE @,
                                 !.blink_timer_active = FALSE,
                                 !.blink_timer_target = 0,
                                 !.blink_timer_stopwatch = 0,
                                 !.led_blink_state = TRUE]
                 s2 == UpdateMotorSpeeds([s1 EXCEPT !.current_speed = 0])
                 s3 == IF s2.remote_connected
                       THEN ShowLedColorForSpeed(s2, s2.current_speed) ELSE s2
             IN  Wait([s3 EXCEPT !.pc = "switch_wait"], ReleaseWait)
        ELSE [s EXCEPT !.pc = "speed"]

\* _handle_profile_switch up to its first wait
HandleProfileSwitchStep(s0, p, ok) ==
    LET s == AfterRead(s0, p, ok)
    IN  IF IsButtonPressed(s, "SWITCH")
        THEN LET s1 == [s EXCEPT !.current_profile = IF @ = 1 THEN 2 ELSE 1,
                                 !.switch_count =
                                     IF scenario.counting
                                     THEN Min(@ + 1, MaxSwitches) ELSE @,
                                 !.blink_timer_active = FALSE,
                                 !.blink_timer_target = 0,
                                 !.blink_timer_stopwatch = 0,
                                 !.led_blink_state = TRUE]
                 s2 == IF s1.remote_connected
                       THEN ShowLedColorForSpeed(s1, s1.current_speed) ELSE s1
             IN  Wait([s2 EXCEPT !.pc = "switch_wait"], ReleaseWait)
        ELSE [s EXCEPT !.pc = "speed"]

HandleProfileSwitch ==
    /\ pc = "switch"
    /\ \E p \in Pressable, ok \in LinkStates :
          Becomes(HandleProfileSwitchStep(Cur, p, ok))
    /\ UNCHANGED obsVars

\* the wait-for-release loop of _handle_profile_switch reading a remote that
\* goes on reporting its buttons after a failed read
SwitchWaitIgnoringLink(s0, p, ok) ==
    LET s == AfterRead(s0, p, ok)
    IN  IF "SWITCH" \in s.pressed
        THEN Wait(s, ReleaseWait)
        ELSE [s EXCEPT !.pc = "speed"]

\* _handle_profile_switch: its wait-for-release loop
SwitchWaitStep(s0, p, ok) ==
    LET s == AfterRead(s0, p, ok)
    IN  IF IsButtonPressed(s, "SWITCH")
        THEN Wait(s, ReleaseWait)
        ELSE [s EXCEPT !.pc = "speed"]

SwitchWait ==
    /\ pc = "switch_wait"
    /\ \E p \in Pressable, ok \in LinkStates : Becomes(SwitchWaitStep(Cur, p, ok))
    /\ UNCHANGED obsVars

\* _handle_speed_control with the STOP test left out of its UP and DOWN branches
HandleSpeedControlNoPriority(s0, p, ok) ==
    LET s == AfterRead(s0, p, ok)
    IN  IF IsButtonPressed(s, "UP") THEN StartAccelerate(s, 1)
        ELSE IF IsButtonPressed(s, "DOWN") THEN StartAccelerate(s, -1)
        ELSE IF IsButtonPressed(s, "STOP")
        THEN AfterSpeedControl(
                Wait(UpdateMotorSpeeds([s EXCEPT !.current_speed = 0]), StopWait))
        ELSE AfterSpeedControl(s)

\* _handle_speed_control up to its first wait
HandleSpeedControlStep(s0, p, ok) ==
    LET s == AfterRead(s0, p, ok)
    IN  IF IsButtonPressed(s, "UP") /\ ~IsButtonPressed(s, "STOP")
        THEN StartAccelerate(s, 1)
        ELSE IF IsButtonPressed(s, "DOWN") /\ ~IsButtonPressed(s, "STOP")
        THEN StartAccelerate(s, -1)
        ELSE IF IsButtonPressed(s, "STOP")
        THEN AfterSpeedControl(
                Wait(UpdateMotorSpeeds([s EXCEPT !.current_speed = 0]), StopWait))
        ELSE AfterSpeedControl(s)

HandleSpeedControl ==
    /\ pc = "speed"
    /\ \E p \in Pressable, ok \in LinkStates :
          Becomes(HandleSpeedControlStep(Cur, p, ok))
    /\ UNCHANGED obsVars

\* _accelerate: one iteration of its for loop, with the wait that ends it
RampTickStep(s) ==
    LET profile == GetCurrentProfile(s)
        s1 == UpdateMotorSpeeds(
                 [s EXCEPT !.current_speed = TickSpeed(@, profile, s.ramp_dir),
                           !.tick_count =
                               IF scenario.counting THEN Min(@ + 1, MaxTicks) ELSE @])
        s2 == Wait([s1 EXCEPT !.ramp_left = @ - 1,
                              !.zero_hold =
                                  IF scenario.counting /\ s1.current_speed = 0
                                  THEN s.ramp_dir ELSE @],
                   profile.acceleration_delay)
    IN  IF s2.current_speed = 0 \/ s2.ramp_left = 0
        THEN AfterRampLoop(s2)
        ELSE s2

RampTick ==
    /\ pc = "tick"
    /\ Becomes(RampTickStep(Cur))
    /\ UNCHANGED obsVars

\* _accelerate without its wait for release
HoldWaitNoBlock(s0, p, ok) == AfterSpeedControl(AfterRead(s0, p, ok))

\* _accelerate: the wait for release when auto_acceleration is off; at speed 0
\* the second wait for release follows it, with a read of its own
HoldWaitStep(s0, p, ok) ==
    LET s == AfterRead(s0, p, ok)
    IN  IF IsButtonPressed(s, DirectionButton(s.ramp_dir))
        THEN Wait(s, ReleaseWait)
        ELSE IF s.current_speed = 0 THEN [s EXCEPT !.pc = "zero_wait"]
        ELSE AfterSpeedControl(s)

HoldWait ==
    /\ pc = "hold_wait"
    /\ \E p \in Pressable, ok \in LinkStates : Becomes(HoldWaitStep(Cur, p, ok))
    /\ UNCHANGED obsVars

\* _accelerate without its wait for release at speed 0
ZeroWaitNoBlock(s0, p, ok) == AfterSpeedControl(AfterRead(s0, p, ok))

\* _accelerate: the wait for release at speed 0
ZeroWaitStep(s0, p, ok) ==
    LET s == AfterRead(s0, p, ok)
    IN  IF IsButtonPressed(s, DirectionButton(s.ramp_dir))
        THEN Wait(s, ReleaseWait)
        ELSE AfterSpeedControl(s)

ZeroWait ==
    /\ pc = "zero_wait"
    /\ \E p \in Pressable, ok \in LinkStates : Becomes(ZeroWaitStep(Cur, p, ok))
    /\ UNCHANGED obsVars

\* run(): the LED refresh while stopped, and the test that guards light control
BlinkRefreshStep(s) ==
    LET s1 == IF s.current_speed = 0 /\ config.use_speed_based_leds
                 /\ config.blink_profile_when_stopped
              THEN ShowLedColorForSpeed(s, s.current_speed)
              ELSE s
    IN  IF has_lights \/ config.should_broadcast
        THEN [s1 EXCEPT !.pc = "light"]
        ELSE Wait([s1 EXCEPT !.pc = "remote"], LoopWait)

BlinkRefresh ==
    /\ pc = "blink"
    /\ Becomes(BlinkRefreshStep(Cur))
    /\ UNCHANGED obsVars

\* _handle_light_control that brightens without the upper limit
HandleLightControlNoLimit(s0, p, ok) ==
    LET s == AfterRead(s0, p, ok)
        up == IsButtonPressed(s, "B_UP") /\ ~IsButtonPressed(s, "B_STOP")
        down == IsButtonPressed(s, "B_DOWN") /\ ~IsButtonPressed(s, "B_STOP")
        toggle == IsButtonPressed(s, "B_STOP")
        wait_time == IF up \/ down THEN LightStepWait
                     ELSE IF toggle THEN LightToggleWait ELSE 0
        s1 == IF up THEN [s EXCEPT !.light_value = @ + LightStep]
              ELSE IF down THEN [s EXCEPT !.light_value = Max(0, @ - LightStep)]
              ELSE IF toggle
              THEN [s EXCEPT !.light_value = IF @ = 0 THEN LightFull ELSE 0]
              ELSE s
        s2 == IF wait_time > 0 /\ config.should_broadcast THEN Broadcast(s1) ELSE s1
        s3 == IF wait_time > 0 /\ has_lights
              THEN [s2 EXCEPT !.light_out = Append(@, s2.light_value)] ELSE s2
        s4 == IF wait_time > 0 THEN Wait(s3, wait_time) ELSE s3
    IN  Wait([s4 EXCEPT !.pc = "remote"], LoopWait)

\* _handle_light_control without its broadcast
HandleLightControlSilent(s0, p, ok) ==
    LET s == AfterRead(s0, p, ok)
        up == IsButtonPressed(s, "B_UP") /\ ~IsButtonPressed(s, "B_STOP")
        down == IsButtonPressed(s, "B_DOWN") /\ ~IsButtonPressed(s, "B_STOP")
        toggle == IsButtonPressed(s, "B_STOP")
        wait_time == IF up \/ down THEN LightStepWait
                     ELSE IF toggle THEN LightToggleWait ELSE 0
        s1 == IF up THEN [s EXCEPT !.light_value = Min(LightFull, @ + LightStep)]
              ELSE IF down THEN [s EXCEPT !.light_value = Max(0, @ - LightStep)]
              ELSE IF toggle
              THEN [s EXCEPT !.light_value = IF @ = 0 THEN LightFull ELSE 0]
              ELSE s
        s3 == IF wait_time > 0 /\ has_lights
              THEN [s1 EXCEPT !.light_out = Append(@, s1.light_value)] ELSE s1
        s4 == IF wait_time > 0 THEN Wait(s3, wait_time) ELSE s3
    IN  Wait([s4 EXCEPT !.pc = "remote"], LoopWait)

\* _handle_light_control with its branches tested without "not B_STOP"
HandleLightControlUpFirst(s0, p, ok) ==
    LET s == AfterRead(s0, p, ok)
        up == IsButtonPressed(s, "B_UP")
        down == ~up /\ IsButtonPressed(s, "B_DOWN")
        toggle == ~up /\ ~down /\ IsButtonPressed(s, "B_STOP")
        wait_time == IF up \/ down THEN LightStepWait
                     ELSE IF toggle THEN LightToggleWait ELSE 0
        s1 == IF up THEN [s EXCEPT !.light_value = Min(LightFull, @ + LightStep)]
              ELSE IF down THEN [s EXCEPT !.light_value = Max(0, @ - LightStep)]
              ELSE IF toggle
              THEN [s EXCEPT !.light_value = IF @ = 0 THEN LightFull ELSE 0]
              ELSE s
        s2 == IF wait_time > 0 /\ config.should_broadcast THEN Broadcast(s1) ELSE s1
        s3 == IF wait_time > 0 /\ has_lights
              THEN [s2 EXCEPT !.light_out = Append(@, s2.light_value)] ELSE s2
        s4 == IF wait_time > 0 THEN Wait(s3, wait_time) ELSE s3
    IN  Wait([s4 EXCEPT !.pc = "remote"], LoopWait)

\* _handle_light_control, and the wait(10) that ends the iteration
HandleLightControlStep(s0, p, ok) ==
    LET s == AfterRead(s0, p, ok)
        up == IsButtonPressed(s, "B_UP") /\ ~IsButtonPressed(s, "B_STOP")
        down == IsButtonPressed(s, "B_DOWN") /\ ~IsButtonPressed(s, "B_STOP")
        toggle == IsButtonPressed(s, "B_STOP")
        wait_time == IF up \/ down THEN LightStepWait
                     ELSE IF toggle THEN LightToggleWait ELSE 0
        s1 == IF up THEN [s EXCEPT !.light_value = Min(LightFull, @ + LightStep)]
              ELSE IF down THEN [s EXCEPT !.light_value = Max(0, @ - LightStep)]
              ELSE IF toggle
              THEN [s EXCEPT !.light_value = IF @ = 0 THEN LightFull ELSE 0]
              ELSE s
        s2 == IF wait_time > 0 /\ config.should_broadcast THEN Broadcast(s1) ELSE s1
        s3 == IF wait_time > 0 /\ has_lights
              THEN [s2 EXCEPT !.light_out = Append(@, s2.light_value)] ELSE s2
        s4 == IF wait_time > 0 THEN Wait(s3, wait_time) ELSE s3
    IN  Wait([s4 EXCEPT !.pc = "remote"], LoopWait)

HandleLightControl ==
    /\ pc = "light"
    /\ \E p \in Pressable, ok \in LinkStates :
          Becomes(HandleLightControlStep(Cur, p, ok))
    /\ UNCHANGED obsVars

\* the channel before the first broadcast
LinkInit ==
    /\ heard = NoData
    /\ heard_lag = MaxLag
    /\ applied_lag = MaxLag
    /\ sent_speeds = {}

\* MotorControlSystem.__init__ for a configuration, device set and scenario
PriInit(configs, lights, scenarios) ==
    /\ config \in configs
    /\ has_lights \in lights
    /\ scenario \in scenarios
    /\ pc = "connect"
    /\ remote_connected = FALSE
    /\ pressed = {}
    /\ current_speed = 0
    /\ previous_speed = 0
    /\ current_profile = 1
    /\ light_value = config.initial_light_value
    /\ ramp_dir = 1
    /\ ramp_left = 0
    /\ led_blink_state = FALSE
    /\ blink_timer_active = FALSE
    /\ blink_timer_target = 0
    /\ blink_timer_stopwatch = 0
    /\ remote_led = "None"
    /\ pri_hub_light = "None"
    /\ motor_out = <<>>
    /\ light_out = <<>>
    /\ broadcast_out = <<>>
    /\ channel = NoData
    /\ shutdown_requests = 0
    /\ wait_out = <<>>
    /\ tick_count = 0
    /\ burst_count = 0
    /\ switch_count = 0
    /\ zero_hold = 0
    /\ LinkInit
    /\ link_error_seen = FALSE
    /\ stop_reads = 0

\* A run of the operator and the link: the buttons the operator touches, those
\* held down throughout, whether the link can fail, and what the model counts.
Scenario(live, held, faults, counting) ==
    [live |-> live, held |-> held, faults |-> faults, counting |-> counting,
     stop_watch |-> FALSE, mirror |-> FALSE]
StopWatchScenario(live, held, faults) ==
    [live |-> live, held |-> held, faults |-> faults, counting |-> FALSE,
     stop_watch |-> TRUE, mirror |-> FALSE]
MirrorScenario(live) ==
    [live |-> live, held |-> {}, faults |-> FALSE, counting |-> FALSE,
     stop_watch |-> FALSE, mirror |-> TRUE]

\* the primary hub as the source configures it, nobody touching the remote
PriAtRest ==
    PriInit({Configuration(DefaultProfileA, DefaultProfileB, TRUE, FALSE, TRUE, TRUE)},
            {FALSE}, {Scenario({}, {}, FALSE, FALSE)})

(***************************************************************************)
(* Observer hub: configuration (ObserverConfiguration)                     *)
(***************************************************************************)
connection_timeout_ms == 1000
max_speed_value == 1000
max_light_value == 100
obs_initial_light_value == 0
ObsLoopWait == 10

\* ms after which the model stops counting a stopwatch (it only saturates there)
MaxClock == 1020

(***************************************************************************)
(* Values the broadcast channel can deliver to the observer                *)
(***************************************************************************)
SpeedScalars ==
    {PyI(-5000), PyI(-1001), PyI(-60), PyI(0), PyI(40), PyI(60), PyI(1000),
     PyI(5000), PyF(607), PyF(-607), PyF(10009), PyInf(1), PyStr}
LightScalars ==
    {PyI(-5), PyI(0), PyI(50), PyI(100), PyI(101), PyF(509), PyF(-9), PyNan, PyStr}

ObservedValues ==
    {NoData}
    \cup {PyTuple(<<s, l>>) : s \in SpeedScalars, l \in LightScalars}
    \cup {PyList(<<PyI(40), PyI(50)>>), PyList(<<PyI(40)>>)}
    \cup {PyTuple(<<PyI(40), PyI(50), PyI(0)>>), PyTuple(<<PyI(40)>>),
          PyTuple(<<>>), PyScalar(PyI(40)), PyScalar(PyStr)}

(***************************************************************************)
(* BLEDataReceiver                                                         *)
(***************************************************************************)
\* _validate_data with the length test dropped (takes the first two elements)
ValidateDataNoArity(data) ==
    IF data.shape \notin {"tuple", "list"} \/ Len(data.items) < 2 THEN None
    ELSE LET speed == data.items[1]
             light == data.items[2]
         IN  IF ~IsNumber(speed) THEN None
             ELSE IF ~IsNumber(light) THEN None
             ELSE IF IntRaises(speed) \/ IntRaises(light) THEN None
             ELSE <<Max(-max_speed_value, Min(max_speed_value, PyInt(speed))),
                    Max(0, Min(max_light_value, PyInt(light)))>>

\* _validate_data that unpacks the pair the other way round
ValidateDataSwapped(data) ==
    IF data.shape \notin {"tuple", "list"} \/ Len(data.items) # 2 THEN None
    ELSE LET speed == data.items[2]
             light == data.items[1]
         IN  IF ~IsNumber(speed) THEN None
             ELSE IF ~IsNumber(light) THEN None
             ELSE IF IntRaises(speed) \/ IntRaises(light) THEN None
             ELSE <<Max(-max_speed_value, Min(max_speed_value, PyInt(speed))),
                    Max(0, Min(max_light_value, PyInt(light)))>>

\* _validate_data with the upper limits dropped
ValidateDataNoUpper(data) ==
    IF data.shape \notin {"tuple", "list"} \/ Len(data.items) # 2 THEN None
    ELSE LET speed == data.items[1]
             light == data.items[2]
         IN  IF ~IsNumber(speed) THEN None
             ELSE IF ~IsNumber(light) THEN None
             ELSE IF IntRaises(speed) \/ IntRaises(light) THEN None
             ELSE <<Max(-max_speed_value, PyInt(speed)), Max(0, PyInt(light))>>

\* _validate_data with the lower speed limit dropped
ValidateDataNoLower(data) ==
    IF data.shape \notin {"tuple", "list"} \/ Len(data.items) # 2 THEN None
    ELSE LET speed == data.items[1]
             light == data.items[2]
         IN  IF ~IsNumber(speed) THEN None
             ELSE IF ~IsNumber(light) THEN None
             ELSE IF IntRaises(speed) \/ IntRaises(light) THEN None
             ELSE <<Min(max_speed_value, PyInt(speed)),
                    Max(0, Min(max_light_value, PyInt(light)))>>

\* _validate_data returning the clamped speed with its sign reversed
ValidateDataReversing(data) ==
    IF data.shape \notin {"tuple", "list"} \/ Len(data.items) # 2 THEN None
    ELSE LET speed == data.items[1]
             light == data.items[2]
         IN  IF ~IsNumber(speed) THEN None
             ELSE IF ~IsNumber(light) THEN None
             ELSE IF IntRaises(speed) \/ IntRaises(light) THEN None
             ELSE <<-Max(-max_speed_value, Min(max_speed_value, PyInt(speed))),
                    Max(0, Min(max_light_value, PyInt(light)))>>

\* _validate_data: None, or the clamped <<speed, light>>.  An exception of
\* int() is caught by the method's own except clause, which returns None.
ValidateData(data) ==
    IF data.shape \notin {"tuple", "list"} \/ Len(data.items) # 2 THEN None
    ELSE LET speed == data.items[1]
             light == data.items[2]
         IN  IF ~IsNumber(speed) THEN None
             ELSE IF ~IsNumber(light) THEN None
             ELSE IF IntRaises(speed) \/ IntRaises(light) THEN None
             ELSE <<Max(-max_speed_value, Min(max_speed_value, PyInt(speed))),
                    Max(0, Min(max_light_value, PyInt(light)))>>

\* receive_data that never sets connection_established
ReceiveEstablishedKept(data) == connection_established

\* receive_data: the new connection_established
ReceiveEstablished(data) == data # NoData

\* receive_data resetting its stopwatch only for a value that validates
ReceiveClockValidOnly(data) ==
    IF data = NoData \/ ValidateData(data) = None THEN last_received_time ELSE 0

\* receive_data: the stopwatch after the call (reset when a value arrived)
ReceiveClock(data) == IF data = NoData THEN last_received_time ELSE 0

\* receive_data: the value returned
ReceiveResult(data) == IF data = NoData THEN None ELSE ValidateData(data)

\* is_connected without the connection_established flag
IsConnectedClockOnly(established, clock) == clock < connection_timeout_ms

\* is_connected
IsConnected(established, clock) ==
    established /\ clock < connection_timeout_ms

(***************************************************************************)
(* ObserverHub                                                             *)
(***************************************************************************)
\* _update_motor_speeds without its guard
MotorUpdateAlways(speed) == TRUE

\* _update_motor_speeds: whether set_speed is called
MotorUpdateNeeded(speed) == speed # obs_previous_speed

\* _update_lights: whether set_light_brightness is called
LightUpdateNeeded(value) ==
    value # current_light_value /\ obs_has_lights

\* run(): the branch that stops the motors when the link is down
SafetyStopNeeded == obs_current_speed # 0

\* wait(ms) as seen by a stopwatch
Elapse(clock, ms) == Min(clock + ms, MaxClock)

ObsInit ==
    /\ connection_established = FALSE
    /\ last_received_time = 0
    /\ obs_current_speed = 0
    /\ obs_previous_speed = 0
    /\ current_light_value = obs_initial_light_value
    /\ obs_has_lights \in BOOLEAN
    /\ obs_connected = FALSE
    /\ link_age = 0
    /\ hub_light = "led_not_receiving"
    /\ received = NoData
    /\ received_data = None
    /\ motor_cmds = <<>>
    /\ light_cmds = <<>>
    /\ motor_speed = 0
    /\ obs_ran = FALSE
    /\ sample_seen = FALSE
    /\ valid_seen = FALSE

\* One iteration of ObserverHub.run's loop, `data` being what observe returns.
ObserverIteration(data) ==
    \E established \in {ReceiveEstablished(data)},
       clock \in {ReceiveClock(data)},
       result \in {ReceiveResult(data)} :
    \E connected \in {IsConnected(established, clock)} :
    \E speedCmd \in {
          IF result # None
          THEN IF MotorUpdateNeeded(result[1]) THEN <<result[1]>> ELSE <<>>
          ELSE IF connected THEN <<>>
          ELSE IF SafetyStopNeeded /\ MotorUpdateNeeded(0) THEN <<0>> ELSE <<>>},
       lightCmd \in {
          IF result # None /\ LightUpdateNeeded(result[2])
          THEN <<result[2]>> ELSE <<>>} :
        /\ received' = data
        /\ received_data' = result
        /\ connection_established' = established
        /\ obs_connected' = connected
        /\ link_age' = clock
        /\ hub_light' = IF connected THEN "led_receiving" ELSE "led_not_receiving"
        /\ motor_cmds' = speedCmd
        /\ light_cmds' = lightCmd
        /\ obs_previous_speed' =
              IF speedCmd # <<>> THEN speedCmd[1] ELSE obs_previous_speed
        /\ motor_speed' = IF speedCmd # <<>> THEN speedCmd[1] ELSE motor_speed
        /\ current_light_value' =
              IF lightCmd # <<>> THEN lightCmd[1] ELSE current_light_value
        /\ last_received_time' = Elapse(clock, ObsLoopWait)
        /\ obs_ran' = TRUE
        /\ sample_seen' = (sample_seen \/ data # NoData)
        /\ valid_seen' = (valid_seen \/ result # None)
        /\ UNCHANGED <<obs_current_speed, obs_has_lights>>

\* The observer alone, the channel delivering any value or nothing.
ObserverStep == \E data \in ObservedValues : ObserverIteration(data)

\* One iteration of the observer's loop next to a running primary.  The
\* observer's radio has caught the broadcast the primary is sending now, or
\* has missed it and still holds the one it received last; hub.ble.observe
\* returns what the radio holds, or None once that has grown too old.
ObserverReads ==
    \E caught \in BOOLEAN, kept \in BOOLEAN :
    \E radio \in {IF caught THEN channel ELSE heard},
       lag \in {IF caught /\ channel # NoData THEN 0 ELSE heard_lag} :
    \E data \in {IF kept THEN radio ELSE NoData} :
        /\ ObserverIteration(data)
        /\ heard' = radio
        /\ heard_lag' = lag
        /\ applied_lag' = IF ReceiveResult(data) # None THEN lag ELSE applied_lag
        /\ UNCHANGED <<priVars, sent_speeds>>

InitObserver == ObsInit /\ PriAtRest
NextObserver == ObserverStep /\ UNCHANGED <<priVars, linkVars>>
SpecObserver == InitObserver /\ [][NextObserver]_vars

(***************************************************************************)
(* Specifications of the primary hub                                       *)
(***************************************************************************)
\* The whole control loop under two small profiles: the operator uses the speed
\* and switch buttons in any way, the radio link comes and goes.
InitPrimary ==
    /\ ObsInit /\ obs_has_lights = FALSE
    /\ PriInit({Configuration(SmallProfileA, SmallProfileB, auto, watchdog, TRUE, FALSE) :
                   auto \in BOOLEAN, watchdog \in BOOLEAN},
               {FALSE},
               {Scenario({"UP", "DOWN", "STOP", "SWITCH"}, {}, TRUE, FALSE)})
NextPrimary ==
    \/ Connect
    \/ HandleRemoteConnection
    \/ HandleProfileSwitch
    \/ SwitchWait
    \/ HandleSpeedControl
    \/ RampTick
    \/ HoldWait
    \/ ZeroWait
    \/ BlinkRefresh
    \/ HandleLightControl
SpecPrimary == InitPrimary /\ [][NextPrimary]_vars

\* _accelerate alone: every profile with 0 < min_speed <= max_speed up to the
\* bounds, every entry speed, both directions.
RampMaxSpeed == 5
RampMaxStep == 3
RampProfiles ==
    {MotorProfile(lo, hi, step, 100) :
        lo \in 1 .. RampMaxSpeed, hi \in 1 .. RampMaxSpeed, step \in 1 .. RampMaxStep}
InitRamp ==
    /\ ObsInit /\ obs_has_lights = FALSE
    /\ config \in {Configuration(pr, pr, auto, FALSE, FALSE, FALSE) :
                      pr \in {q \in RampProfiles : q.min_speed <= q.max_speed},
                      auto \in BOOLEAN}
    /\ has_lights = FALSE
    /\ scenario = Scenario({}, {}, FALSE, TRUE)
    /\ pc = "tick"
    /\ remote_connected = TRUE
    /\ pressed = {}
    /\ current_speed \in -(RampMaxSpeed + 2) .. (RampMaxSpeed + 2)
    /\ previous_speed = current_speed
    /\ current_profile = 1
    /\ light_value = config.initial_light_value
    /\ ramp_dir \in {1, -1}
    /\ ramp_left = config.profile_a.acceleration_step
    /\ led_blink_state = FALSE
    /\ blink_timer_active = FALSE
    /\ blink_timer_target = 0
    /\ blink_timer_stopwatch = 0
    /\ remote_led = "None"
    /\ pri_hub_light = "led_connected"
    /\ motor_out = <<>>
    /\ light_out = <<>>
    /\ broadcast_out = <<>>
    /\ channel = NoData
    /\ shutdown_requests = 0
    /\ wait_out = <<>>
    /\ tick_count = 0
    /\ burst_count = 1
    /\ switch_count = 0
    /\ zero_hold = 0
    /\ LinkInit
    /\ link_error_seen = FALSE
    /\ stop_reads = 0
NextRamp == RampTick
SpecRamp == InitRamp /\ [][NextRamp]_vars

\* The control loop as the source configures it (main_hub.py), the operator
\* holding UP down from the start and touching nothing else, the link staying up.
InitHeldUp ==
    /\ ObsInit /\ obs_has_lights = FALSE
    /\ PriInit({Configuration(DefaultProfileA, DefaultProfileB, TRUE, FALSE, TRUE, TRUE)},
               {FALSE}, {Scenario({"UP"}, {"UP"}, FALSE, TRUE)})
NextHeldUp ==
    \/ Connect
    \/ HandleRemoteConnection
    \/ HandleProfileSwitch
    \/ HandleSpeedControl
    \/ RampTick
    \/ BlinkRefresh
    \/ HandleLightControl
SpecHeldUp == InitHeldUp /\ [][NextHeldUp]_vars
\* run() is one sequential loop of bounded waits: it always takes its next step
SpecHeldUpFair == SpecHeldUp /\ WF_vars(NextHeldUp)

\* Both hubs: the primary with broadcasting on, the operator using UP, STOP
\* and the light-up button at will, and the observer reading the channel at
\* its own pace, in any interleaving of the two loops.
InitMirror ==
    /\ ObsInit /\ obs_has_lights = FALSE
    /\ PriInit({Configuration(SmallProfileA, SmallProfileB, TRUE, FALSE, TRUE, FALSE)},
               {FALSE}, {MirrorScenario({"UP", "STOP"})})
NextMirror ==
    \/ Connect
    \/ HandleRemoteConnection
    \/ HandleProfileSwitch
    \/ HandleSpeedControl
    \/ RampTick
    \/ BlinkRefresh
    \/ HandleLightControl
    \/ ObserverReads
SpecMirror == InitMirror /\ [][NextMirror]_vars

\* The control loop with a profile whose min_speed is 1, so that ticks reach
\* speed 0; UP and DOWN pressed and released at will, the link failing at will
InitZero ==
    /\ ObsInit /\ obs_has_lights = FALSE
    /\ PriInit({Configuration(SmallProfileB, SmallProfileA, auto, FALSE, FALSE, FALSE) :
                   auto \in BOOLEAN},
               {FALSE}, {Scenario({"UP", "DOWN"}, {}, TRUE, TRUE)})
NextZero ==
    \/ Connect
    \/ HandleRemoteConnection
    \/ HandleProfileSwitch
    \/ HandleSpeedControl
    \/ RampTick
    \/ HoldWait
    \/ ZeroWait
    \/ BlinkRefresh
SpecZero == InitZero /\ [][NextZero]_vars

\* The control loop with the profiles of the source and auto-acceleration off
\* (the default of main-hub.py): the operator holds UP down from the start and
\* never lets go, the radio link comes and goes.
InitHeldManual ==
    /\ ObsInit /\ obs_has_lights = FALSE
    /\ PriInit({Configuration(DefaultProfileA, DefaultProfileB, FALSE, FALSE, FALSE, FALSE)},
               {FALSE}, {Scenario({"UP"}, {"UP"}, TRUE, TRUE)})
NextHeldManual ==
    \/ Connect
    \/ HandleRemoteConnection
    \/ HandleProfileSwitch
    \/ HandleSpeedControl
    \/ RampTick
    \/ HoldWait
    \/ BlinkRefresh
SpecHeldManual == InitHeldManual /\ [][NextHeldManual]_vars

\* The control loop under the two small profiles with the link staying up: the
\* operator uses UP, DOWN and STOP in any way, and the model counts the reads
\* in a row that find STOP pressed.
InitStopHeld ==
    /\ ObsInit /\ obs_has_lights = FALSE
    /\ PriInit({Configuration(SmallProfileA, SmallProfileB, auto, FALSE, TRUE, FALSE) :
                   auto \in BOOLEAN},
               {FALSE}, {StopWatchScenario({"UP", "DOWN", "STOP"}, {}, FALSE)})
NextStopHeld ==
    \/ Connect
    \/ HandleRemoteConnection
    \/ HandleProfileSwitch
    \/ HandleSpeedControl
    \/ RampTick
    \/ HoldWait
    \/ BlinkRefresh
    \/ HandleLightControl
SpecStopHeld == InitStopHeld /\ [][NextStopHeld]_vars

\* The control loop under the two small profiles, with and without lights
\* attached and with and without broadcasting: the operator uses UP and the
\* three light buttons in any way, the radio link comes and goes, the watchdog
\* is on.
InitLights ==
    /\ ObsInit /\ obs_has_lights = FALSE
    /\ PriInit({Configuration(SmallProfileA, SmallProfileB, TRUE, TRUE, broadcast, FALSE) :
                   broadcast \in BOOLEAN},
               BOOLEAN,
               {Scenario({"UP", "B_UP", "B_DOWN", "B_STOP"}, {}, TRUE, FALSE)})
NextLights ==
    \/ Connect
    \/ HandleRemoteConnection
    \/ HandleProfileSwitch
    \/ HandleSpeedControl
    \/ RampTick
    \/ BlinkRefresh
    \/ HandleLightControl
SpecLights == InitLights /\ [][NextLights]_vars

\* Configuration.initial_light_value: values of [0, 100] on and off the steps
\* of ten that light control takes
InitialLightValues == {0, 5, 50, 95, 100}

\* The control loop with lights attached, started at any of these light
\* values: the operator uses the three light buttons in any way, the radio
\* link comes and goes.
InitLightLevels ==
    /\ ObsInit /\ obs_has_lights = FALSE
    /\ PriInit({[Configuration(SmallProfileA, SmallProfileB, TRUE, FALSE, TRUE, FALSE)
                    EXCEPT !.initial_light_value = v] : v \in InitialLightValues},
               {TRUE},
               {Scenario({"B_UP", "B_DOWN", "B_STOP"}, {}, TRUE, FALSE)})
NextLightLevels ==
    \/ Connect
    \/ HandleRemoteConnection
    \/ HandleProfileSwitch
    \/ HandleSpeedControl
    \/ BlinkRefresh
    \/ HandleLightControl
SpecLightLevels == InitLightLevels /\ [][NextLightLevels]_vars

\* The control loop as the source configures it (main_hub.py): the operator
\* holds SWITCH down from the start and never lets go, and may use UP as
\* well; the radio link comes and goes.
InitHeldSwitch ==
    /\ ObsInit /\ obs_has_lights = FALSE
    /\ PriInit({Configuration(DefaultProfileA, DefaultProfileB, TRUE, FALSE, TRUE, TRUE)},
               {FALSE}, {Scenario({"SWITCH", "UP"}, {"SWITCH"}, TRUE, TRUE)})
NextHeldSwitch ==
    \/ Connect
    \/ HandleRemoteConnection
    \/ HandleProfileSwitch
    \/ SwitchWait
    \/ HandleSpeedControl
    \/ BlinkRefresh
    \/ HandleLightControl
SpecHeldSwitch == InitHeldSwitch /\ [][NextHeldSwitch]_vars

\* The control loop under the two small profiles with blinking when stopped
\* enabled and the watchdog on; profile A has the LED style the source gives
\* it, profile B a style without profile_indicator.  The operator uses UP,
\* STOP and SWITCH in any way, the radio link comes and goes.
InitBlink ==
    /\ ObsInit /\ obs_has_lights = FALSE
    /\ PriInit({[Configuration(SmallProfileA, SmallProfileB, TRUE, TRUE, FALSE, TRUE)
                    EXCEPT !.led_speed_profile_b = SpeedLEDConfigDefault]},
               {FALSE},
               {Scenario({"UP", "STOP", "SWITCH"}, {}, TRUE, FALSE)})
NextBlink ==
    \/ Connect
    \/ HandleRemoteConnection
    \/ HandleProfileSwitch
    \/ SwitchWait
    \/ HandleSpeedControl
    \/ RampTick
    \/ BlinkRefresh
SpecBlink == InitBlink /\ [][NextBlink]_vars

(***************************************************************************)
(* Properties of the observer hub                                          *)
(***************************************************************************)
\* the speeds and light values the primary hub can broadcast
PrimarySpeeds == -DefaultProfileB.max_speed .. DefaultProfileB.max_speed
PrimaryLights == 0 .. LightFull

\* a value of the shape and range the primary hub broadcasts
IsPrimarySample(d) ==
    /\ d.shape = "tuple"
    /\ Len(d.items) = 2
    /\ d.items[1].t = "int" /\ d.items[1].v \in PrimarySpeeds
    /\ d.items[2].t = "int" /\ d.items[2].v \in PrimaryLights
    /\ d = BroadcastData(d.items[1].v, d.items[2].v)

\* the mathematical clamp of v to [lo, hi]
ClampTo(v, lo, hi) == IF v < lo THEN lo ELSE IF v > hi THEN hi ELSE v

\* the integers i that are x truncated toward zero (x a finite number)
Truncations(x) ==
    IF x.t = "int" THEN {x.v}
    ELSE {i \in {(x.v \div 10) - 1, x.v \div 10, (x.v \div 10) + 1} :
            /\ i * x.v >= 0
            /\ Abs(10 * i) <= Abs(x.v)
            /\ Abs(x.v) - Abs(10 * i) < 10}

\* a 2-element tuple or list of numbers
WellFormed(d) ==
    /\ d.shape \in {"tuple", "list"}
    /\ Len(d.items) = 2
    /\ d.items[1].t \in {"int", "float", "inf", "nan"}
    /\ d.items[2].t \in {"int", "float", "inf", "nan"}

\* a value that arrived and is not a 2-element tuple or list of numbers
Malformed(d) == d # NoData /\ ~WellFormed(d)

\* both numbers of a well-formed sample are finite
FiniteSample(d) ==
    d.items[1].t \in {"int", "float"} /\ d.items[2].t \in {"int", "float"}

\* the pair the validator is to return for a well-formed finite sample
ClampedPairs(d) ==
    {<<ClampTo(i, -max_speed_value, max_speed_value), ClampTo(j, 0, max_light_value)>> :
        i \in Truncations(d.items[1]), j \in Truncations(d.items[2])}

\* C1: after an observer iteration that found the link not established, the
\* observer's motors have been commanded to speed 0 (fail-safe stop).
C1_FailSafeStop == (obs_ran /\ ~obs_connected) => motor_speed = 0

\* C2: after every observer iteration the link is established exactly when a
\* sample has been received and the time since the last received sample is
\* below connection_timeout_ms.
C2_LinkIffFresh ==
    obs_ran => (obs_connected <=> (sample_seen /\ link_age < connection_timeout_ms))

\* C3 (as claimed): the link is established only after a sample that passed
\* validation has been received.
C3_LinkOnlyAfterValid == obs_connected => valid_seen

\* C3 (amended): the link is not established initially and is established
\* only after a sample, well-formed or not, has been received.
C3_LinkOnlyAfterSample ==
    /\ ~obs_ran => ~obs_connected
    /\ obs_connected => sample_seen
    /\ IsConnected(connection_established, last_received_time) => sample_seen

C3_Witness == obs_connected /\ sample_seen /\ ~valid_seen

C5_MalformedRejected ==
    [][Malformed(received') =>
          /\ received_data' = None
          /\ motor_cmds' = <<>>
          /\ light_cmds' = <<>>
          /\ motor_speed' = motor_speed
          /\ obs_previous_speed' = obs_previous_speed
          /\ current_light_value' = current_light_value]_vars

C5_Witness ==
    /\ received = PyTuple(<<PyI(40), PyI(50), PyI(0)>>)
    /\ received_data = None
    /\ motor_cmds = <<>>
    /\ motor_speed = 60
    /\ current_light_value = 100

\* C6: a motor command is issued only with a speed other than the one the
\* motors already run at, a light command only with a value other than the
\* current light value, at most one of each per iteration; with the link
\* lost and the motors at 0 no further stop is commanded.
C6_NoRedundantCommand ==
    [][/\ Len(motor_cmds') <= 1
       /\ Len(light_cmds') <= 1
       /\ motor_cmds' # <<>> => motor_cmds'[1] # motor_speed
       /\ light_cmds' # <<>> => light_cmds'[1] # current_light_value
       /\ (~obs_connected' /\ motor_speed = 0) => motor_cmds' = <<>>]_vars

C6_Witness ==
    /\ received_data = <<60, 50>>
    /\ motor_speed = 60
    /\ current_light_value = 50
    /\ motor_cmds = <<>>
    /\ light_cmds = <<>>

\* C7: an iteration that receives a sample (speed, light) as the primary
\* broadcasts it commands the clamped speed to the motors, if it differs
\* from the speed they run at, and finds the link established.
C7_SampleApplied ==
    [][IsPrimarySample(received') =>
          LET c == ClampTo(received'.items[1].v, -max_speed_value, max_speed_value)
          IN  /\ obs_connected'
              /\ hub_light' = "led_receiving"
              /\ motor_speed' = c
              /\ motor_cmds' = IF c # motor_speed THEN <<c>> ELSE <<>>]_vars

C7_Witness ==
    /\ received = BroadcastData(60, 0)
    /\ motor_cmds = <<60>>
    /\ motor_speed = 60
    /\ obs_connected

(***************************************************************************)
(* Properties of the primary hub                                           *)
(***************************************************************************)
\* the profile in force
ActiveProfile == IF current_profile = 1 THEN config.profile_a ELSE config.profile_b

\* a speed the profile allows: within its maximum, and 0 or at least its minimum
LegalSpeed(speed, profile) ==
    /\ Abs(speed) <= profile.max_speed
    /\ ~(0 < Abs(speed) /\ Abs(speed) < profile.min_speed)

\* C8: for every profile with 0 < min_speed <= max_speed, every entry speed
\* and both directions, after each completed tick of _accelerate
\* |current_speed| <= max_speed and |current_speed| is not strictly between
\* 0 and min_speed.
C8_TickWithinLimits == tick_count > 0 => LegalSpeed(current_speed, ActiveProfile)

C8_Witness ==
    /\ tick_count = 1
    /\ ActiveProfile.min_speed = 3
    /\ ramp_dir = -1
    /\ current_speed = -3
    /\ motor_out = <<-3>>

\* C9: at every iteration boundary of the primary loop |current_speed| is at
\* most max_speed of the active profile and is 0 or at least its min_speed.
C9_ControlStateInvariant ==
    pc = "remote" => LegalSpeed(current_speed, ActiveProfile)

\* C10 (as claimed): from rest, with direction +1 under profile
\* {min 20, max 100, step 10}, the speed is exactly 100 after 10 ticks.
C10_HundredAfterTenTicks == tick_count = 10 => current_speed = 100

\* C10 (amended): from rest, with direction +1 under that profile, 10 ticks
\* (the first call) give 29, since the first tick snaps 0 to 20; the speed
\* first is 100 at tick 81, in the 9th call, is exactly 100 after the 10th
\* call, and no further call makes it exceed 100.
C10_HundredAfterTenCalls ==
    /\ current_speed <= 100
    /\ tick_count = 10 => current_speed = 29
    /\ tick_count < 81 => current_speed < 100
    /\ tick_count = 81 => current_speed = 100
    /\ (burst_count >= 10 /\ pc # "tick") => current_speed = 100

C10_Witness ==
    /\ burst_count = 11
    /\ pc = "blink"
    /\ current_speed = 100
    /\ ActiveProfile = DefaultProfileA

\* C11: a ramp tick against the sign of current_speed that takes the speed
\* below min_speed ends at exactly 0, and no ramp tick takes the speed from
\* a positive value to a negative one or back.
C11_DecelerationStopsAtZero ==
    [][pc = "tick" =>
          /\ (current_speed * ramp_dir < 0
                 /\ Abs(current_speed + ramp_dir) < ActiveProfile.min_speed
              => current_speed' = 0)
          /\ ~(current_speed > 0 /\ current_speed' < 0)
          /\ ~(current_speed < 0 /\ current_speed' > 0)]_vars

C13_StopPriority ==
    [][(/\ pc = "speed"
        /\ remote_connected'
        /\ "STOP" \in pressed'
        /\ pressed' \cap {"UP", "DOWN"} # {})
       => /\ current_speed' = 0
          /\ previous_speed' = 0
          /\ motor_out' = IF current_speed # 0 THEN <<0>> ELSE <<>>
          /\ pc' = "blink"
          /\ ramp_left' = ramp_left
          /\ wait_out' = <<StopWait>>]_vars

C13_Witness ==
    /\ pc = "blink"
    /\ {"STOP", "UP"} \subseteq pressed
    /\ remote_connected
    /\ current_speed = 0
    /\ motor_out = <<0>>
    /\ wait_out = <<StopWait>>

\* the reads of the remote one pass of the loop makes at most before it
\* evaluates STOP: light control, profile switch, speed control, and one more
\* for the read that ends a wait for release
StopReadsPerPass == Cardinality({"light", "switch", "speed", "release"})

\* C14: while the remote is connected, once STOP has been pressed for as many
\* reads in a row as one pass of the loop makes, current_speed is 0, whether
\* auto-acceleration is on or off and whether UP or DOWN is held as well.
C14_StopWithinOnePass == stop_reads >= StopReadsPerPass => current_speed = 0

\* C15: with the watchdog enabled, the step in which the liveness check finds
\* the link down sets current_speed to 0, pushes the stop to the motors and
\* broadcasts it (if the motors were running), and evaluates no button.
C15_WatchdogStops ==
    [][(/\ pc = "remote"
        /\ config.watchdog_enabled
        /\ pri_hub_light' = "led_not_connected")
       => /\ current_speed' = 0
          /\ previous_speed' = 0
          /\ motor_out' = IF current_speed # 0 THEN <<0>> ELSE <<>>
          /\ broadcast_out' =
                 IF current_speed # 0 /\ config.should_broadcast
                 THEN <<BroadcastData(0, light_value)>> ELSE <<>>
          /\ pressed' = {}]_vars

C15_Witness ==
    /\ config.watchdog_enabled
    /\ pri_hub_light = "led_not_connected"
    /\ current_speed = 0
    /\ motor_out = <<0>>
    /\ broadcast_out = <<BroadcastData(0, light_value)>>
    /\ pressed = {}

\* the positions of run()'s loop; each has a step that is always possible
LoopPositions ==
    {"remote", "switch", "switch_wait", "speed", "tick", "hold_wait",
     "zero_wait", "blink", "light"}

C17_CoalescedUpdate ==
    [][/\ previous_speed = current_speed
       /\ previous_speed' = current_speed'
       /\ motor_out' = IF current_speed' # current_speed
                       THEN <<current_speed'>> ELSE <<>>
       /\ (pc # "light" =>
              broadcast_out' =
                 IF current_speed' # current_speed /\ config.should_broadcast
                 THEN <<BroadcastData(current_speed', light_value')>> ELSE <<>>)
       /\ (pc = "light" => current_speed' = current_speed)]_vars

C17_Witness ==
    /\ pc = "tick"
    /\ ramp_left < ActiveProfile.acceleration_step
    /\ current_speed = ActiveProfile.max_speed
    /\ motor_out = <<>>
    /\ broadcast_out = <<>>

\* C18: with broadcasting enabled, once something has been broadcast the
\* value broadcast last is (current_speed, light_value) at every boundary of
\* a loop iteration.
C18_ChannelIsCurrent ==
    (config.should_broadcast /\ pc = "remote" /\ channel # NoData)
        => channel = BroadcastData(current_speed, light_value)

C18_Witness ==
    /\ config.should_broadcast
    /\ pc = "remote"
    /\ current_speed # 0
    /\ light_value \notin {0, LightFull}
    /\ channel = BroadcastData(current_speed, light_value)

\* the three light actions, as the claims name them
Brighten(value) == Min(LightFull, value + LightStep)
Dim(value) == Max(0, value - LightStep)
Toggle(value) == IF value = 0 THEN LightFull ELSE 0

\* C19 as stated: one light action at most is applied in an iteration, in the
\* priority order up, down, toggle: brighten whenever light-up is pressed,
\* else dim if light-down is pressed, else toggle if light-stop is pressed.
C19_UpDownToggle ==
    [][(pc = "light" /\ remote_connected') =>
          light_value' =
             IF "B_UP" \in pressed' THEN Brighten(light_value)
             ELSE IF "B_DOWN" \in pressed' THEN Dim(light_value)
             ELSE IF "B_STOP" \in pressed' THEN Toggle(light_value)
             ELSE light_value]_vars

\* C19: one light action at most is applied in an iteration, and light-stop
\* wins: toggle whenever light-stop is pressed, whatever else is pressed, else
\* brighten if light-up is pressed, else dim if light-down is pressed.
C19_ToggleUpDown ==
    [][(pc = "light" /\ remote_connected') =>
          light_value' =
             IF "B_STOP" \in pressed' THEN Toggle(light_value)
             ELSE IF "B_UP" \in pressed' THEN Brighten(light_value)
             ELSE IF "B_DOWN" \in pressed' THEN Dim(light_value)
             ELSE light_value]_vars

C19_Witness ==
    /\ pc = "remote"
    /\ remote_connected
    /\ {"B_UP", "B_STOP"} \subseteq pressed
    /\ light_value = LightFull
    /\ wait_out = <<LightToggleWait, LoopWait>>

\* C20: an iteration whose light control finds a light button pressed
\* broadcasts once (broadcasting enabled) and waits its settle delay once,
\* also when light_value stays as it was; an iteration that finds none
\* pressed broadcasts nothing there and waits only the loop's own 10 ms.
C20_OneBroadcastOneDelay ==
    [][pc = "light" =>
          LET acted == /\ remote_connected'
                       /\ pressed' \cap {"B_UP", "B_DOWN", "B_STOP"} # {}
              settle == IF "B_STOP" \in pressed'
                        THEN LightToggleWait ELSE LightStepWait
          IN  IF acted
              THEN /\ broadcast_out' =
                        IF config.should_broadcast
                        THEN <<BroadcastData(current_speed', light_value')>>
                        ELSE <<>>
                   /\ wait_out' = <<settle, LoopWait>>
              ELSE /\ broadcast_out' = <<>>
                   /\ wait_out' = <<LoopWait>>
                   /\ light_value' = light_value]_vars

C20_Witness ==
    /\ pc = "remote"
    /\ remote_connected
    /\ pressed = {"B_DOWN"}
    /\ light_value = 0
    /\ broadcast_out = <<BroadcastData(current_speed, 0)>>
    /\ wait_out = <<LightStepWait, LoopWait>>

\* C22: while the train moves, the colour of the remote's LED is slow if
\* pct <= slow_threshold, medium if slow_threshold < pct <= medium_threshold
\* and fast otherwise, pct being |speed| / max_speed * 100 of the active
\* profile; at exactly pct = slow_threshold the colour is slow.
C22_ColorByThreshold ==
    (current_speed # 0 /\ remote_connected)
        => remote_led = MovingColorExact(Cur, current_speed)

C23_StoppedColorIdempotent ==
    LET once == GetStoppedLedColor(Cur)
        twice == GetStoppedLedColor(once)
    IN  /\ StoppedColor(twice) = StoppedColor(once)
        /\ twice.led_blink_state = once.led_blink_state
        /\ twice = once

C23_Witness ==
    /\ pc = "blink"
    /\ current_speed = 0
    /\ BlinkTimerElapsed(Cur)
    /\ GetStoppedLedColor(Cur).led_blink_state # led_blink_state

\* C24: with auto-acceleration on, profile A {min 20, max 100, step 10}, the
\* remote connected and only UP held, from rest on: current_speed comes to
\* be 100 and stays 100 from then on, and every speed on the way is 0 or at
\* least 20.
C24_HeldUpReachesMax ==
    /\ <>[](current_speed = DefaultProfileA.max_speed)
    /\ [](current_speed = 0 \/ current_speed >= DefaultProfileA.min_speed)

C24_Witness ==
    /\ pc = "tick"
    /\ "UP" \in pressed
    /\ current_speed = DefaultProfileA.max_speed
    /\ burst_count = MaxBursts

\* C25: an iteration of the observer that received a value, valid or malformed,
\* leaves connection_established true, the status light in the receiving
\* colour and the stopwatch of the last reception restarted in that iteration:
\* it was read as 0 and shows the loop's own wait afterwards.
C25_AnySampleIsLinkUp ==
    (obs_ran /\ received # NoData)
        => /\ connection_established
           /\ obs_connected
           /\ hub_light = "led_receiving"
           /\ link_age = 0
           /\ last_received_time = ObsLoopWait

C25_Witness ==
    /\ obs_ran
    /\ received # NoData
    /\ received_data = None
    /\ valid_seen
    /\ hub_light = "led_receiving"

\* the two loops of _accelerate that wait for the release of a button
ReleaseWaits == {"hold_wait", "zero_wait"}

WaitTotal ==
    LET total[i \in 0 .. Len(wait_out)] ==
            IF i = 0 THEN 0 ELSE total[i - 1] + wait_out[i]
    IN  total[Len(wait_out)]

\* C27: with blink-when-stopped on, a step that takes current_speed from
\* nonzero to 0 while the remote is connected shows the profile's indicator
\* colour and leaves the blink state at "indicator shown, timer restarted":
\* the flag is true and the timer runs from that step on for a full interval.
C27_StopResetsBlink ==
    [][(current_speed # 0 /\ current_speed' = 0 /\ remote_connected')
          => /\ remote_led' = ProfileColor(Cur)
             /\ led_blink_state'
             /\ blink_timer_active'
             /\ blink_timer_target' = GetCurrentSpeedLedConfig(Cur).blink_interval_ms
             /\ blink_timer_stopwatch' = WaitTotal']_vars

\* C28: a profile switch sets led_blink_state and resets the blink timer;
\* when it happens at rest with blink-when-stopped on, the colour pushed to
\* the remote in that step is the new profile's indicator colour (its fast
\* colour when it has no indicator of its own) and the timer runs anew from
\* that step, for the new profile's interval; the flag goes back to false
\* only in a step that finds the timer past its interval.
C28_SwitchShowsIndicator ==
    [][/\ ((pc = "switch" /\ current_profile' # current_profile)
             => /\ led_blink_state'
                /\ (current_speed = 0
                      => /\ remote_led' = ProfileColor(Cur)'
                         /\ remote_led' # GetCurrentSpeedLedConfig(Cur)'.stopped
                         /\ blink_timer_active'
                         /\ blink_timer_target' =
                                GetCurrentSpeedLedConfig(Cur)'.blink_interval_ms
                         /\ blink_timer_stopwatch' = WaitTotal')
                /\ (current_speed # 0 => ~blink_timer_active'))
       /\ ((led_blink_state /\ ~led_blink_state')
             => /\ blink_timer_active
                /\ blink_timer_stopwatch >
                       GetCurrentSpeedLedConfig(Cur).blink_interval_ms)]_vars

C28_Witness ==
    /\ pc = "switch_wait"
    /\ current_speed = 0
    /\ current_profile = 1
    /\ motor_out = <<>>
    /\ led_blink_state
    /\ remote_led = LedSpeedProfileA.profile_indicator
    /\ blink_timer_active
    /\ blink_timer_stopwatch = ReleaseWait

\* the blink timer is running and has run for more than the blink interval
BlinkDue ==
    /\ blink_timer_active
    /\ blink_timer_stopwatch > GetCurrentSpeedLedConfig(Cur).blink_interval_ms

\* C29: at rest with blink-when-stopped on, a poll of the loop toggles
\* led_blink_state exactly when it finds the blink timer running for more
\* than blink_interval_ms; such a poll restarts the timer, any other poll
\* lets it run on (starting it if it was idle); the colour pushed is the
\* indicator colour (the fast colour when none is configured) while the
\* flag is true and the stopped colour while it is false.  No step changes
\* the flag otherwise, but for a profile switch, which sets it.
C29_BlinkMachine ==
    [][/\ ((pc = "blink" /\ current_speed = 0)
             => /\ (led_blink_state' # led_blink_state) = BlinkDue
                /\ blink_timer_active'
                /\ blink_timer_target' =
                       GetCurrentSpeedLedConfig(Cur).blink_interval_ms
                /\ blink_timer_stopwatch' =
                       IF BlinkDue \/ ~blink_timer_active THEN WaitTotal'
                       ELSE Min(blink_timer_stopwatch + WaitTotal', MaxBlinkClock)
                /\ (remote_connected
                      => remote_led' = IF led_blink_state' THEN ProfileColor(Cur)
                                       ELSE GetCurrentSpeedLedConfig(Cur).stopped))
       /\ ((led_blink_state' # led_blink_state)
             => \/ BlinkDue
                \/ (pc = "switch" /\ current_profile' # current_profile))]_vars

C29_Witness ==
    /\ pc = "remote"
    /\ current_speed = 0
    /\ remote_connected
    /\ current_profile = 2
    /\ led_blink_state
    /\ blink_timer_active
    /\ blink_timer_stopwatch = LoopWait
    /\ remote_led = SpeedLEDConfigDefault.fast

\* C30: a step changes light_value only in light control, and only to what
\* brighten (min(100, v + 10)), dim (max(0, v - 10)) or toggle (0 -> 100,
\* else -> 0) make of it; started within 0 .. 100 it stays within 0 .. 100.
C30_LightValueInRange ==
    [][/\ light_value' \in {light_value, Brighten(light_value),
                            Dim(light_value), Toggle(light_value)}
       /\ (light_value' # light_value => (pc = "light" /\ remote_connected'))
       /\ light_value \in 0 .. LightFull
       /\ light_value' \in 0 .. LightFull]_vars

C30_Witness ==
    /\ pc = "remote"
    /\ config.initial_light_value = 95
    /\ pressed = {"B_UP"}
    /\ light_value = LightFull
    /\ light_out = <<LightFull>>

\* what the observer has commanded lies within the configured ranges
CommandsInRange ==
    /\ \A i \in 1 .. Len(motor_cmds) :
          motor_cmds[i] \in -max_speed_value .. max_speed_value
    /\ \A i \in 1 .. Len(light_cmds) : light_cmds[i] \in 0 .. max_light_value
    /\ motor_speed \in -max_speed_value .. max_speed_value
    /\ current_light_value \in 0 .. max_light_value

C32_CurrentSpeedTracksCommand == obs_ran => obs_current_speed = motor_speed

C34_ActuatorsNeverLag ==
    [][/\ previous_speed' = current_speed'
       /\ (current_speed' # current_speed
             => (motor_out' # <<>> /\ motor_out'[Len(motor_out')] = current_speed'))]_vars

C34_Witness ==
    /\ pc = "remote"
    /\ config.watchdog_enabled
    /\ ~remote_connected
    /\ current_speed = 0
    /\ previous_speed = 0
    /\ motor_out = <<0>>

\* a step that leaves speed and light as they are and commands nothing
NothingCommanded ==
    /\ current_speed' = current_speed
    /\ previous_speed' = previous_speed
    /\ light_value' = light_value
    /\ motor_out' = <<>>
    /\ light_out' = <<>>
    /\ broadcast_out' = <<>>

\* such a step that leaves the profile as it is too
QuietStep == NothingCommanded /\ current_profile' = current_profile

C36_SwitchTouchesProfileOnly ==
    [][current_profile' # current_profile
          => /\ pc = "switch"
             /\ pc' = "switch_wait"
             /\ NothingCommanded
             /\ UNCHANGED <<ramp_dir, ramp_left, pri_hub_light, channel,
                            shutdown_requests, tick_count, burst_count>>
             /\ led_blink_state'
             /\ ~blink_timer_active'
             /\ wait_out' = <<ReleaseWait>>]_vars

C36_Witness ==
    /\ pc = "switch_wait"
    /\ current_profile = 1
    /\ current_speed # 0
    /\ previous_speed = current_speed
    /\ ~LegalSpeed(current_speed, ActiveProfile)
    /\ motor_out = <<>>
    /\ broadcast_out = <<>>
    /\ wait_out = <<ReleaseWait>>

\* the three wait-for-release loops, the button each one watches and where
\* the code goes on when it ends
WaitLoops == {"switch_wait", "hold_wait", "zero_wait"}
WatchedButton == IF pc = "switch_wait" THEN "SWITCH" ELSE DirectionButton(ramp_dir)
AfterWaitLoop ==
    IF pc = "switch_wait" THEN "speed"
    ELSE IF pc = "hold_wait" /\ current_speed = 0 THEN "zero_wait"
    ELSE "blink"

\* C37: a pass of a wait-for-release loop reads the remote once; it ends the
\* loop exactly when the watched button is not down or the read fails (the
\* remote is then marked disconnected), and otherwise waits 100 ms and stays
\* in the loop; either way it leaves speed, light and profile unchanged and
\* commands and broadcasts nothing.
C37_WaitEndsOnReleaseOrLinkLoss ==
    [][(pc \in WaitLoops)
          => /\ QuietStep
             /\ (remote_connected' => remote_connected)
             /\ (IF remote_connected' /\ WatchedButton \in pressed'
                 THEN pc' = pc /\ wait_out' = <<ReleaseWait>>
                 ELSE pc' = AfterWaitLoop /\ wait_out' = <<>>)]_vars

C37_Witness ==
    /\ pc = "zero_wait"
    /\ current_profile = 2
    /\ current_speed = 0
    /\ remote_connected
    /\ DirectionButton(ramp_dir) \in pressed
    /\ wait_out = <<ReleaseWait>>

\* the tuple `(speed, light)` that _validate_data returns, as a Python value
ValidatedTuple(pair) == PyTuple(<<PyI(pair[1]), PyI(pair[2])>>)

\* C38: what the validator returns for a value it accepts is a pair of
\* integers, the speed within [-max_speed_value, max_speed_value] and the
\* light within [0, max_light_value], and the validator returns that pair
\* unchanged when it is given it.
C38_ValidatorIdempotent ==
    received_data # None
       => /\ received_data = ValidateData(received)
          /\ received_data \in (-max_speed_value .. max_speed_value)
                                  \X (0 .. max_light_value)
          /\ ValidateData(ValidatedTuple(received_data)) = received_data

C38_Witness ==
    /\ received = PyTuple(<<PyF(10009), PyF(-9)>>)
    /\ received_data = <<max_speed_value, 0>>
    /\ ValidatedTuple(received_data) # received


====
